---- MODULE Spec2Model ----
(***************************************************************************)
(* Model of src/bot.ts: the outbound batching pipeline (enqueue,           *)
(* flushQueue, startFlushTimer, splitToChunks, sanitizeLine), the child    *)
(* process supervisor (startServer and its close handler), the shutdown    *)
(* sequence and the remote console session manager (RconManager), run on   *)
(* Node's single-threaded event loop.                                      *)
(*                                                                         *)
(* Scheduling.  One step of the model is one event-loop task: a callback   *)
(* (timer tick, stream data, child close, signal, completion of an         *)
(* awaited send) run to the point where every async function it entered    *)
(* is suspended at an await of real I/O.  A continuation that is ready     *)
(* without I/O (an await of an already settled promise) is a microtask:    *)
(* it is a step of its own, and no task runs while one is pending          *)
(* (MicrotaskPending).                                                     *)
(*                                                                         *)
(* Text is a sequence of one-character strings.  Sizes are scaled: the     *)
(* hard limit is DISCORD_HARD_LIMIT characters, and the lines the child    *)
(* prints are drawn from RawLines.  A line stands for the prefixed line    *)
(* that push hands to enqueue.                                             *)
(*                                                                         *)
(* Embeds (sendEmbed) other than the shutdown announcement are sent with   *)
(* void and touch no state: they are left out.                             *)
(*                                                                         *)
(* Specifications.  Spec is the program: start-up, the child, the queue    *)
(* and the shutdown sequence.  SpecQueue is the program in the runs where  *)
(* no termination signal arrives, with one more line printed.  SpecFaults  *)
(* is Spec with teardown steps that fail, SpecLive is Spec with the        *)
(* fairness of the event loop.  SpecRcon is RconManager under any callers  *)
(* of send and close, with transports that refuse, reject and terminate;   *)
(* in the other specifications the manager is reduced to whether it holds  *)
(* a transport when the shutdown closes it.  SpecPure and SpecSanitize     *)
(* are one call of splitToChunks and of sanitizeLine, and SpecFragments is *)
(* the oversized branch of flushQueue on one very long line.               *)
(***************************************************************************)
EXTENDS Integers, Sequences, FiniteSets, TLC

\* ------------------------------------------------------------------ bounds
\* Scaled stand-in for the 2000 of src/bot.ts:28.
DISCORD_HARD_LIMIT == 14
SAFETY_HEADROOM == 10
MAX_CONTENT == DISCORD_HARD_LIMIT - SAFETY_HEADROOM

\* Largest MAX_LINES_PER_BATCH the environment is taken to configure.
MaxLinesBound == 2
\* Number of lines the child prints in one run: without termination
\* signals (SpecQueue), with them (Spec), and with them and failing teardown
\* steps (SpecFaults).
MaxEnq == 3
MaxEnqShutdown == 2
MaxEnqFaults == 1
\* Number of RconManager.send calls, and of transports Rcon.connect makes.
MaxCalls == 3
MaxTransports == 3
\* Number of termination signals delivered in one run.
MaxSignals == 2
\* Number of sends that are rejected in one run.
MaxFail == 1
\* Longest text and largest chunk size given to splitToChunks on its own.
MaxTextLen == 5
MaxChunk == 3
\* Longest line given to sanitizeLine on its own.
MaxLineLen == 5
\* Largest number of fragments of an oversized line taken on its own.
MaxFragments == 1000

\* ------------------------------------------------------------- characters
NL == "\n"
\* ZW stands for U+200B, BT for the backtick, AT for the at sign.
ZW == "z"
BT == "T"
AT == "@"
Letters == <<"a", "b", "c", "d", "e", "f">>

RECURSIVE Rep(_, _)
Rep(c, n) == IF n <= 0 THEN <<>> ELSE <<c>> \o Rep(c, n - 1)

RECURSIVE Concat(_)
Concat(ss) == IF ss = <<>> THEN <<>> ELSE Head(ss) \o Concat(Tail(ss))

IsPrefix(s, t) == Len(s) <= Len(t) /\ SubSeq(t, 1, Len(s)) = s

\* String.prototype.slice(a, b) for 0 <= a <= b, positions counted from 0.
Slice(s, a, b) ==
    LET hi == IF b > Len(s) THEN Len(s) ELSE b
    IN  IF a >= hi THEN <<>> ELSE SubSeq(s, a + 1, hi)

\* s.startsWith(pat) at offset p (counted from 1).
MatchAt(s, pat, p) ==
    /\ p + Len(pat) - 1 <= Len(s)
    /\ SubSeq(s, p, p + Len(pat) - 1) = pat

\* String.prototype.replaceAll(pat, rep): leftmost non-overlapping matches.
RECURSIVE ReplaceFrom(_, _, _, _)
ReplaceFrom(s, pat, rep, p) ==
    IF p > Len(s) THEN <<>>
    ELSE IF MatchAt(s, pat, p)
         THEN rep \o ReplaceFrom(s, pat, rep, p + Len(pat))
         ELSE <<s[p]>> \o ReplaceFrom(s, pat, rep, p + 1)

ReplaceAll(s, pat, rep) == ReplaceFrom(s, pat, rep, 1)

sanitizeLine(line) ==
    ReplaceAll(ReplaceAll(line, <<AT>>, <<AT, ZW>>),
               <<BT, BT, BT>>, <<BT, ZW, BT, BT>>)

\* The loop of splitToChunks from index i on.
RECURSIVE SplitFrom(_, _, _)
SplitFrom(s, max, i) ==
    IF i < Len(s) THEN <<Slice(s, i, i + max)>> \o SplitFrom(s, max, i + max)
    ELSE <<>>

splitToChunks_overlap(s, max) ==
    IF Len(s) > max
    THEN <<Slice(s, 0, max)>> \o SplitFrom(s, max, max - 1)
    ELSE SplitFrom(s, max, 0)

splitToChunks(s, max) == SplitFrom(s, max, 0)

\* Array.prototype.join("\n").
RECURSIVE Join(_)
Join(lines) ==
    IF lines = <<>> THEN <<>>
    ELSE IF Len(lines) = 1 THEN Head(lines)
    ELSE Head(lines) \o <<NL>> \o Join(Tail(lines))

\* Decimal digits of a natural number, as `${n}` prints it.
Digit(d) == <<"0", "1", "2", "3", "4", "5", "6", "7", "8", "9">>[d + 1]

RECURSIVE NumStr(_)
NumStr(n) == IF n < 10 THEN <<Digit(n)>> ELSE NumStr(n \div 10) \o <<Digit(n % 10)>>

\* The suffix of fragment number k (counted from 1) of n.
Suffix(k, n) ==
    IF n > 1 THEN <<" ", "[">> \o NumStr(k) \o <<"/">> \o NumStr(n) \o <<"]">>
    ELSE <<>>


\* ------------------------------------------------------------------ state
VARIABLES
    MAX_LINES_PER_BATCH,  \* configured lines per batch (src/bot.ts:26)
    RCON_ENABLED,         \* configured remote console switch (src/bot.ts:35)
    faults,               \* whether the steps of the teardown may fail
    channel,              \* TRUE once the text channel is resolved
    server,               \* "null" or "proc": the child process handle
    queue,                \* pending sanitized lines
    flushTimer,           \* TRUE while the interval timer is set
    shuttingDown,         \* the one-shot flag of shutdown
    main,                 \* position of the start-up function
    flush,                \* the suspended flushQueue invocations, by number
    nextFlush,            \* number the next suspending invocation gets
    sent,                 \* history: every channel.send({content}) issued
    enq,                  \* history: every line pushed on the queue
    sd,                   \* the shutdown invocations, one per signal
    signals,              \* number of signals delivered so far
    did,                  \* history: how often each teardown step ran
    log,                  \* history: the teardown steps in the order they
                          \* ran, each with whether it succeeded
    exit,                 \* "running", "exit0" or "exit1"
    arg_s, arg_max, result, applied,  \* a call of a pure function
    rcon,                 \* RconManager.rcon: 0 (null) or a transport
    connected,            \* RconManager.connected
    connecting,           \* RconManager.connecting
    transport,            \* the state of every transport Rcon.connect made
    call,                 \* the calls of RconManager.send, by number
    closing,              \* the call of RconManager.close
    issued                \* history: every command handed to a transport

cvars == <<MAX_LINES_PER_BATCH, RCON_ENABLED, faults>>
rvars == <<rcon, connected, connecting, transport, call, closing, issued>>
qvars == <<queue, flushTimer, flush, nextFlush, sent>>
pvars == <<arg_s, arg_max, result, applied>>
vars == <<MAX_LINES_PER_BATCH, RCON_ENABLED, faults, channel, server, queue, flushTimer, shuttingDown,
          main, flush, nextFlush, sent, enq, sd, signals, did, log, exit,
          arg_s, arg_max, result, applied,
          rcon, connected, connecting, transport, call, closing, issued>>

FlushIds == 1..MaxEnq
CallIds == 1..MaxCalls
TransportIds == 1..MaxTransports
SignalIds == 1..MaxSignals
Steps == {"announce", "flag", "stop", "grace", "kill", "flush", "rcon",
          "destroy", "exit"}

\* Line lengths the child is taken to print (before sanitizing).
LineLens == {1, 2, MAX_CONTENT + 1}

\* The k-th line printed is made of the k-th letter, so that every line of a
\* run is a different text; one choice carries an at sign.
RawLines(k) ==
    {Rep(Letters[k], n) : n \in LineLens}
        \cup (IF k = 1 THEN {<<Letters[k], AT>>} ELSE {})

IdleFlush ==
    [pc |-> "idle", force |-> FALSE, current |-> <<>>, currentLen |-> 0,
     raw |-> <<>>, addLen |-> 0, chunks |-> <<>>, i |-> 0, taken |-> <<>>]

IdleShutdown ==
    [pc |-> "none", done |-> FALSE, settled |-> FALSE, closed |-> FALSE,
     registered |-> FALSE, timer |-> FALSE, f |-> 0, before |-> 0]

IdleCall == [pc |-> "idle", t |-> 0]

AwaitPcs == {"aw_preflush", "aw_chunk", "aw_overflow", "aw_final"}

\* ------------------------------------------------------------- flushQueue
AddLen(current, raw) == (IF Len(current) = 0 THEN 0 ELSE 1) + Len(raw)

WouldOverflowChars_noSeparator(currentLen, addLen) ==
    currentLen + addLen - 1 > MAX_CONTENT

WouldOverflowChars(currentLen, addLen) == currentLen + addLen > MAX_CONTENT

WouldOverflowLines(current) == Len(current) + 1 > MAX_LINES_PER_BATCH

IsOversized(raw) == Len(raw) > MAX_CONTENT

\* Whether the in-progress batch is sent before the fragments of an
\* oversized line.
FlushesFirst_never(current) == FALSE

FlushesFirst(current) == Len(current) > 0

\* What a run of flushQueue's code reaches next: the await it suspends at
\* (pc), with its locals and the content it has just handed to
\* channel.send (msg, at most one), or its return (pc = "done").
Reached(pc, q, current, currentLen, raw, addLen, chunks, i, msg) ==
    [pc |-> pc, q |-> q, current |-> current, currentLen |-> currentLen,
     raw |-> raw, addLen |-> addLen, chunks |-> chunks, i |-> i, msg |-> msg]

RECURSIVE Drain(_, _, _)
RECURSIVE ChunkLoop(_, _, _, _, _, _)

\* The for loop over the fragments of an oversized line, from index i.
ChunkLoop(q, current, currentLen, raw, chunks, i) ==
    IF i < Len(chunks)
    THEN Reached("aw_chunk", q, current, currentLen, raw, 0, chunks, i,
                 <<chunks[i + 1] \o Suffix(i + 1, Len(chunks))>>)
    ELSE Drain(q, current, currentLen)

\* The while loop over the queue, and the final flushCurrent after it.
Drain(q, current, currentLen) ==
    IF q = <<>>
    THEN IF Len(current) > 0
         THEN Reached("aw_final", q, current, currentLen, <<>>, 0, <<>>, 0,
                      <<Join(current)>>)
         ELSE Reached("done", q, <<>>, 0, <<>>, 0, <<>>, 0, <<>>)
    ELSE LET raw == Head(q)
             rest == Tail(q)
             addLen == AddLen(current, raw)
         IN  IF IsOversized(raw)
             THEN IF FlushesFirst(current)
                  THEN Reached("aw_preflush", rest, current, currentLen, raw, 0,
                               splitToChunks(raw, MAX_CONTENT), 0,
                               <<Join(current)>>)
                  ELSE ChunkLoop(rest, current, currentLen, raw,
                                 splitToChunks(raw, MAX_CONTENT), 0)
             ELSE IF WouldOverflowChars(currentLen, addLen)
                        \/ WouldOverflowLines(current)
                  THEN IF Len(current) > 0
                       THEN Reached("aw_overflow", rest, current, currentLen,
                                    raw, addLen, <<>>, 0, <<Join(current)>>)
                       ELSE Drain(rest, <<raw>>, 0 + addLen)
                  ELSE Drain(rest, Append(current, raw), currentLen + addLen)

\* The code after an awaited send, whether it resolved (ok) or was rejected
\* and caught by sendPacked: L holds the locals of the invocation.
AfterSend_abort(L, q, ok) ==
    IF ~ok THEN Reached("done", q, <<>>, 0, <<>>, 0, <<>>, 0, <<>>)
    ELSE IF L.pc = "aw_preflush"
    THEN ChunkLoop(q, <<>>, 0, L.raw, L.chunks, 0)
    ELSE IF L.pc = "aw_chunk"
    THEN ChunkLoop(q, L.current, L.currentLen, L.raw, L.chunks, L.i + 1)
    ELSE IF L.pc = "aw_overflow"
    THEN Drain(q, <<L.raw>>, 0 + L.addLen)
    ELSE Reached("done", q, <<>>, 0, <<>>, 0, <<>>, 0, <<>>)

AfterSend(L, q, ok) ==
    IF L.pc = "aw_preflush"
    THEN ChunkLoop(q, <<>>, 0, L.raw, L.chunks, 0)
    ELSE IF L.pc = "aw_chunk"
    THEN ChunkLoop(q, L.current, L.currentLen, L.raw, L.chunks, L.i + 1)
    ELSE IF L.pc = "aw_overflow"
    THEN Drain(q, <<L.raw>>, 0 + L.addLen)
    ELSE Reached("done", q, <<>>, 0, <<>>, 0, <<>>, 0, <<>>)

\* The entry a send adds to the history.
Message(r, f) ==
    [content |-> r.msg[1], by |-> f,
     kind |-> IF r.pc = "aw_chunk" THEN "fragment" ELSE "batch",
     i |-> IF r.pc = "aw_chunk" THEN r.i + 1 ELSE 0,
     n |-> IF r.pc = "aw_chunk" THEN Len(r.chunks) ELSE 0,
     status |-> "pending"]

\* The history with the pending send of invocation f settled.
Settle(f, ok) ==
    [j \in 1..Len(sent) |->
        IF sent[j].by = f /\ sent[j].status = "pending"
        THEN [sent[j] EXCEPT !.status = IF ok THEN "ok" ELSE "failed"]
        ELSE sent[j]]

Failures == Cardinality({j \in 1..Len(sent) : sent[j].status = "failed"})

\* The timer after a flushQueue(force) call has returned.
TimerAfterReturn_keep(force) == flushTimer

TimerAfterReturn(force) == IF force /\ flushTimer THEN FALSE ELSE flushTimer

\* Invocation f, called with `force`, has run from queue q0 and history s0
\* to r: the state it leaves.
Advance(f, force, taken, q0, s0, r) ==
    /\ queue' = r.q
    /\ sent' = IF r.msg = <<>> THEN s0 ELSE Append(s0, Message(r, f))
    /\ flush' = [flush EXCEPT ![f] =
          [pc |-> r.pc, force |-> force, current |-> r.current,
           currentLen |-> r.currentLen, raw |-> r.raw, addLen |-> r.addLen,
           chunks |-> r.chunks, i |-> r.i,
           taken |-> taken \o SubSeq(q0, 1, Len(q0) - Len(r.q))]]
    /\ flushTimer' = IF r.pc = "done" THEN TimerAfterReturn(force) ELSE flushTimer

ReturnsAtOnce == ~channel \/ Len(queue) = 0

\* A call flushQueue(force), up to its first await or its return.
FlushCall(force) ==
    IF ReturnsAtOnce
    THEN /\ flushTimer' = TimerAfterReturn(force)
         /\ UNCHANGED <<queue, flush, nextFlush, sent>>
    ELSE /\ Advance(nextFlush, force, <<>>, queue, sent, Drain(queue, <<>>, 0))
         /\ nextFlush' = nextFlush + 1

startFlushTimer == flushTimer' = (IF flushTimer THEN flushTimer ELSE TRUE)


\* --------------------------------------------------------------- schedule
Running == exit = "running"

\* Shutdown invocation k has a continuation that is ready without I/O.
ReadyAfterFlush(k) ==
    \/ sd[k].pc = "after_flush"
    \/ sd[k].pc = "aw_flush" /\ flush[sd[k].f].pc = "done"

MicrotaskPending ==
    \E k \in SignalIds :
        sd[k].pc \in {"after_announce", "after_grace"} \/ ReadyAfterFlush(k)

Task == Running /\ ~MicrotaskPending

Count(step) == [did EXCEPT ![step] = @ + 1]

\* The entry a teardown step adds to the history.
Entry(step, ok) == [step |-> step, ok |-> ok]

StepFailures == Cardinality({j \in 1..Len(log) : ~log[j].ok})

\* Whether one more failure is within the bound of the model.
MayFail == faults /\ Failures + StepFailures < MaxFail

\* Where the shutdown sequence goes on when a step has thrown or its
\* promise was rejected: every step is in a try/catch (sendEmbed has its
\* own), so it goes on where it would after a success.
OnStepFailure_abort(pc) == "returned"

OnStepFailure(pc) == pc

\* The position after a step of outcome ok.
Then(pc, ok) == IF ok THEN pc ELSE OnStepFailure(pc)

\* ------------------------------------------------------------------- Init
InitSystem ==
    /\ MAX_LINES_PER_BATCH \in 0..MaxLinesBound
    /\ channel = FALSE
    /\ server = "null"
    /\ queue = <<>>
    /\ flushTimer = FALSE
    /\ shuttingDown = FALSE
    /\ main = "login"
    /\ flush = [f \in FlushIds |-> IdleFlush]
    /\ nextFlush = 1
    /\ sent = <<>>
    /\ enq = <<>>
    /\ sd = [k \in SignalIds |-> IdleShutdown]
    /\ signals = 0
    /\ did = [s \in Steps |-> 0]
    /\ log = <<>>
    /\ exit = "running"
    /\ rcon = 0
    /\ connected = FALSE
    /\ connecting = FALSE
    /\ transport = [t \in TransportIds |-> "none"]
    /\ call = [c \in CallIds |-> IdleCall]
    /\ closing = IdleCall
    /\ issued = <<>>

NoCall == arg_s = <<>> /\ arg_max = 0 /\ result = <<>> /\ applied = FALSE

\* The remote console is enabled; in Spec, SpecQueue and SpecFaults its
\* session manager is reduced to whether it holds a transport when the
\* shutdown closes it (AfterFlush), and SpecRcon is the manager itself.
Init == InitSystem /\ NoCall /\ faults = FALSE /\ RCON_ENABLED = TRUE

\* --------------------------------------------------------------- start-up
\* client.login and ensureChannel have resolved: channel is set and the
\* "Logger online" embed is being sent.
LoginDone ==
    /\ Task
    /\ main = "login"
    /\ channel' = TRUE
    /\ main' = "aw_online"
    /\ UNCHANGED <<cvars, server, shuttingDown, enq, sd, signals,
                   did, log, exit>>
    /\ UNCHANGED qvars
    /\ UNCHANGED <<pvars, rvars>>

\* The embed send has settled: startServer spawns the child, or exits with
\* code 1 when the working directory or the script is missing.
StartServer ==
    /\ Task
    /\ main = "aw_online"
    /\ \E found \in BOOLEAN :
          IF found
          THEN server' = "proc" /\ main' = "started" /\ exit' = exit
          ELSE server' = server /\ main' = "fatal" /\ exit' = "exit1"
    /\ UNCHANGED <<cvars, channel, shuttingDown, enq, sd, signals,
                   did, log>>
    /\ UNCHANGED qvars
    /\ UNCHANGED <<pvars, rvars>>

\* ------------------------------------------------------ enqueue and flush
\* A data event of the child's stdout or stderr carrying one line.
Enqueue(limit) ==
    /\ Task
    /\ server = "proc"
    /\ Len(enq) < limit
    /\ \E line \in RawLines(Len(enq) + 1) :
          /\ queue' = Append(queue, sanitizeLine(line))
          /\ enq' = Append(enq, sanitizeLine(line))
    /\ startFlushTimer
    /\ UNCHANGED <<cvars, channel, server, shuttingDown, main,
                   flush, nextFlush, sent, sd, signals, did, log, exit>>
    /\ UNCHANGED <<pvars, rvars>>

\* A tick of the interval timer: flushQueue(false).
TimerTick ==
    /\ Task
    /\ flushTimer
    /\ FlushCall(FALSE)
    /\ UNCHANGED <<cvars, channel, server, shuttingDown, main,
                   enq, sd, signals, did, log, exit>>
    /\ UNCHANGED <<pvars, rvars>>

\* The send awaited by invocation f settles, and f runs on to its next
\* await or to its return.
SendDone(f) ==
    /\ Task
    /\ flush[f].pc \in AwaitPcs
    /\ \E ok \in BOOLEAN :
          /\ ok \/ Failures < MaxFail
          /\ Advance(f, flush[f].force, flush[f].taken, queue, Settle(f, ok),
                     AfterSend(flush[f], queue, ok))
    /\ UNCHANGED <<cvars, channel, server, shuttingDown, main,
                   nextFlush, enq, sd, signals, did, log, exit>>
    /\ UNCHANGED <<pvars, rvars>>

\* ------------------------------------------------------------ child close
\* resolve(v) of the grace-wait promise of a shutdown invocation: only the
\* first call settles it.
Resolve(S, v) ==
    IF S.settled THEN S
    ELSE [S EXCEPT !.settled = TRUE, !.closed = v, !.pc = "after_grace"]

\* onClose, registered with once.
OnClose(S) ==
    IF ~S.done
    THEN [Resolve([S EXCEPT !.done = TRUE], TRUE) EXCEPT !.registered = FALSE]
    ELSE [S EXCEPT !.registered = FALSE]

\* The child's close event: the handler of startServer (flushQueue(true),
\* server = null), then every onClose registered by a shutdown, in the
\* order the listeners were added.
ChildClose ==
    /\ Task
    /\ server = "proc"
    /\ FlushCall(TRUE)
    /\ server' = "null"
    /\ sd' = [k \in SignalIds |->
                IF sd[k].registered THEN OnClose(sd[k]) ELSE sd[k]]
    /\ UNCHANGED <<cvars, channel, shuttingDown, main, enq,
                   signals, did, log, exit>>
    /\ UNCHANGED <<pvars, rvars>>


\* --------------------------------------------------------------- shutdown
AlreadyShuttingDown_never == FALSE

AlreadyShuttingDown == shuttingDown

\* SIGINT or SIGTERM number k arrives: shutdown() up to its first await.
Signal ==
    /\ Task
    /\ signals < MaxSignals
    /\ signals' = signals + 1
    /\ LET k == signals + 1
       IN  IF AlreadyShuttingDown
           THEN /\ sd' = [sd EXCEPT ![k].pc = "returned"]
                /\ UNCHANGED <<shuttingDown, did, log>>
           ELSE /\ shuttingDown' = TRUE
                /\ did' = Count("announce")
                /\ log' = Append(log, Entry("announce", TRUE))
                /\ sd' = [sd EXCEPT ![k].pc =
                            IF channel THEN "aw_announce" ELSE "after_announce"]
    /\ UNCHANGED <<cvars, channel, server, main, enq, exit>>
    /\ UNCHANGED qvars
    /\ UNCHANGED <<pvars, rvars>>

\* The send of the "shutting down" embed settles (a rejection is caught).
AnnounceDone(k) ==
    /\ Task
    /\ sd[k].pc = "aw_announce"
    /\ \E ok \in BOOLEAN :
          /\ ok \/ MayFail
          /\ sd' = [sd EXCEPT ![k].pc = Then("after_announce", ok)]
          /\ log' = [log EXCEPT ![Len(log)].ok = ok]
    /\ UNCHANGED <<cvars, channel, server, shuttingDown, main,
                   enq, signals, did, exit>>
    /\ UNCHANGED qvars
    /\ UNCHANGED <<pvars, rvars>>

\* After the announcement: write the no-restart flag, write "stop" to the
\* child's stdin if it is writable, and start the grace wait (register
\* onClose on the child, if there is one, and set the grace timer).
AfterAnnounce(k) ==
    /\ Running
    /\ sd[k].pc = "after_announce"
    /\ \E writable, flagOk, stopOk \in BOOLEAN :
          LET stops == server = "proc" /\ writable
          IN  /\ (flagOk /\ stopOk) \/ MayFail
              /\ flagOk \/ stopOk
              /\ stops \/ stopOk
              /\ did' = [did EXCEPT !["flag"] = @ + 1,
                                    !["stop"] = IF stops THEN @ + 1 ELSE @,
                                    !["grace"] = @ + 1]
              /\ log' = log \o <<Entry("flag", flagOk)>>
                            \o (IF stops THEN <<Entry("stop", stopOk)>> ELSE <<>>)
                            \o <<Entry("grace", TRUE)>>
              /\ sd' = [sd EXCEPT ![k] =
                          [@ EXCEPT !.pc = Then("aw_grace", flagOk /\ stopOk),
                                    !.done = FALSE,
                                    !.registered = (server = "proc"),
                                    !.timer = TRUE]]
    /\ UNCHANGED <<cvars, channel, server, shuttingDown, main,
                   enq, signals, exit>>
    /\ UNCHANGED qvars
    /\ UNCHANGED <<pvars, rvars>>

\* The callback of the grace timer.
OnTimeout_resolveAlways(S) ==
    [S EXCEPT !.timer = FALSE, !.settled = TRUE, !.closed = FALSE,
              !.pc = "after_grace"]

OnTimeout(S) ==
    [(IF ~S.done THEN Resolve(S, FALSE) ELSE S) EXCEPT !.timer = FALSE]

GraceTimeout(k) ==
    /\ Task
    /\ sd[k].timer
    /\ sd' = [sd EXCEPT ![k] = OnTimeout(sd[k])]
    /\ UNCHANGED <<cvars, channel, server, shuttingDown, main,
                   enq, signals, did, log, exit>>
    /\ UNCHANGED qvars
    /\ UNCHANGED <<pvars, rvars>>

\* Whether the code after the grace wait calls server.kill("SIGTERM").
Kills(S) == ~S.closed /\ server = "proc"

\* After the grace wait: kill the child if the wait timed out, then call
\* flushQueue(true) and await it.
AfterGrace(k) ==
    /\ Running
    /\ sd[k].pc = "after_grace"
    /\ did' = [did EXCEPT !["kill"] = IF Kills(sd[k]) THEN @ + 1 ELSE @,
                          !["flush"] = @ + 1]
    /\ FlushCall(TRUE)
    /\ \E killOk \in BOOLEAN :
          /\ killOk \/ (Kills(sd[k]) /\ MayFail)
          /\ log' = log \o (IF Kills(sd[k]) THEN <<Entry("kill", killOk)>>
                            ELSE <<>>)
                        \o <<Entry("flush", TRUE)>>
          /\ sd' = [sd EXCEPT ![k] =
                      IF ReturnsAtOnce
                      THEN [@ EXCEPT !.pc = Then("after_flush", killOk),
                                     !.before = Len(enq)]
                      ELSE [@ EXCEPT !.pc = Then("aw_flush", killOk),
                                     !.f = nextFlush, !.before = Len(enq)]]
    /\ UNCHANGED <<cvars, channel, server, shuttingDown, main,
                   enq, signals, exit>>
    /\ UNCHANGED <<pvars, rvars>>

\* After the forced flush has returned: rconManager.close(), which awaits
\* the end of a live transport if there is one, then client.destroy().
AfterFlush(k) ==
    /\ Running
    /\ ReadyAfterFlush(k)
    /\ \E live \in BOOLEAN :
          IF live
          THEN /\ sd' = [sd EXCEPT ![k].pc = "aw_rcon"]
               /\ did' = Count("rcon")
               /\ log' = Append(log, Entry("rcon", TRUE))
          ELSE /\ sd' = [sd EXCEPT ![k].pc = "aw_destroy"]
               /\ did' = [did EXCEPT !["rcon"] = @ + 1, !["destroy"] = @ + 1]
               /\ log' = log \o <<Entry("rcon", TRUE), Entry("destroy", TRUE)>>
    /\ UNCHANGED <<cvars, channel, server, shuttingDown, main,
                   enq, signals, exit>>
    /\ UNCHANGED qvars
    /\ UNCHANGED <<pvars, rvars>>

\* transport.end() has settled (close catches a rejection): client.destroy()
\* is called and awaited.
RconClosed(k) ==
    /\ Task
    /\ sd[k].pc = "aw_rcon"
    /\ did' = Count("destroy")
    /\ \E ok \in BOOLEAN :
          /\ ok \/ MayFail
          /\ sd' = [sd EXCEPT ![k].pc = Then("aw_destroy", ok)]
          /\ log' = Append([log EXCEPT ![Len(log)].ok = ok],
                           Entry("destroy", TRUE))
    /\ UNCHANGED <<cvars, channel, server, shuttingDown, main,
                   enq, signals, exit>>
    /\ UNCHANGED qvars
    /\ UNCHANGED <<pvars, rvars>>

\* client.destroy() has settled (a rejection is caught): process.exit(0).
Destroyed(k) ==
    /\ Task
    /\ sd[k].pc = "aw_destroy"
    /\ did' = Count("exit")
    /\ \E ok \in BOOLEAN :
          /\ ok \/ MayFail
          /\ sd' = [sd EXCEPT ![k].pc = Then("exited", ok)]
          /\ exit' = IF Then("exited", ok) = "exited" THEN "exit0" ELSE exit
          /\ log' = Append([log EXCEPT ![Len(log)].ok = ok],
                           Entry("exit", TRUE))
    /\ UNCHANGED <<cvars, channel, server, shuttingDown, main,
                   enq, signals>>
    /\ UNCHANGED qvars
    /\ UNCHANGED <<pvars, rvars>>

\* ------------------------------------------------------------------- Spec
\* The runs in which no termination signal arrives.
NextQueue ==
    \/ LoginDone
    \/ StartServer
    \/ Enqueue(MaxEnq)
    \/ TimerTick
    \/ \E f \in FlushIds : SendDone(f)
    \/ ChildClose

SpecQueue == Init /\ [][NextQueue]_vars

Next ==
    \/ LoginDone
    \/ StartServer
    \/ Enqueue(MaxEnqShutdown)
    \/ TimerTick
    \/ \E f \in FlushIds : SendDone(f)
    \/ ChildClose
    \/ Signal
    \/ \E k \in SignalIds : AnnounceDone(k)
    \/ \E k \in SignalIds : AfterAnnounce(k)
    \/ \E k \in SignalIds : GraceTimeout(k)
    \/ \E k \in SignalIds : AfterGrace(k)
    \/ \E k \in SignalIds : AfterFlush(k)
    \/ \E k \in SignalIds : RconClosed(k)
    \/ \E k \in SignalIds : Destroyed(k)

Spec == Init /\ [][Next]_vars

\* The whole program with what its scheduling guarantees: every awaited
\* call of the Messenger and of the remote console returns, timers fire and
\* ready continuations run.  Output of the child, its close event and
\* signals come or do not come.
Fairness ==
    /\ WF_vars(LoginDone)
    /\ WF_vars(StartServer)
    /\ WF_vars(TimerTick)
    /\ \A f \in FlushIds : WF_vars(SendDone(f))
    /\ \A k \in SignalIds :
          /\ WF_vars(AnnounceDone(k))
          /\ WF_vars(AfterAnnounce(k))
          /\ WF_vars(GraceTimeout(k))
          /\ WF_vars(AfterGrace(k))
          /\ WF_vars(AfterFlush(k))
          /\ WF_vars(RconClosed(k))
          /\ WF_vars(Destroyed(k))

SpecLive == Init /\ [][Next]_vars /\ Fairness

\* The whole program with the failures of the teardown steps: the
\* announcement, the flag write, the stdin write, kill, transport.end() and
\* client.destroy() may each throw or reject.
InitFaults == InitSystem /\ NoCall /\ faults = TRUE /\ RCON_ENABLED = TRUE

NextFaults ==
    \/ LoginDone
    \/ StartServer
    \/ Enqueue(MaxEnqFaults)
    \/ TimerTick
    \/ \E f \in FlushIds : SendDone(f)
    \/ ChildClose
    \/ Signal
    \/ \E k \in SignalIds : AnnounceDone(k)
    \/ \E k \in SignalIds : AfterAnnounce(k)
    \/ \E k \in SignalIds : GraceTimeout(k)
    \/ \E k \in SignalIds : AfterGrace(k)
    \/ \E k \in SignalIds : AfterFlush(k)
    \/ \E k \in SignalIds : RconClosed(k)
    \/ \E k \in SignalIds : Destroyed(k)

SpecFaults == InitFaults /\ [][NextFaults]_vars

\* ------------------------------------------- splitToChunks on its own
Texts ==
    UNION {[1..n -> {"a", "b"}] : n \in 0..MaxTextLen}
        \cup {<<"a", "b", "c", "d", "e", "f">>, <<"a", "b", "c">>}

ChunkSizes == (1..MaxChunk) \cup {10}

InitPure ==
    /\ InitSystem
    /\ arg_s \in Texts
    /\ arg_max \in ChunkSizes
    /\ result = <<>>
    /\ applied = FALSE
    /\ faults = FALSE
    /\ RCON_ENABLED = TRUE

ApplySplit ==
    /\ ~applied
    /\ result' = splitToChunks(arg_s, arg_max)
    /\ applied' = TRUE
    /\ UNCHANGED <<arg_s, arg_max>>
    /\ UNCHANGED <<cvars, channel, server, shuttingDown, main,
                   enq, sd, signals, did, log, exit>>
    /\ UNCHANGED <<qvars, rvars>>

NextPure == ApplySplit

SpecPure == InitPure /\ [][NextPure]_vars


\* ------------------------------------------------ sanitizeLine on its own
\* The lines: every text of a letter, at signs and backticks.
Lines == UNION {[1..n -> {"a", AT, BT}] : n \in 0..MaxLineLen}

InitSanitize ==
    /\ InitSystem
    /\ MAX_LINES_PER_BATCH = MaxLinesBound
    /\ arg_s \in Lines
    /\ arg_max = 0
    /\ result = <<>>
    /\ applied = FALSE
    /\ faults = FALSE
    /\ RCON_ENABLED = TRUE

ApplySanitize ==
    /\ ~applied
    /\ result' = sanitizeLine(arg_s)
    /\ applied' = TRUE
    /\ UNCHANGED <<arg_s, arg_max>>
    /\ UNCHANGED <<cvars, channel, server, shuttingDown, main, enq, sd,
                   signals, did, log, exit>>
    /\ UNCHANGED <<qvars, rvars>>

NextSanitize == ApplySanitize

SpecSanitize == InitSanitize /\ [][NextSanitize]_vars


\* ------------------------------------- the oversized branch on its own
\* flushQueue on one oversized line with an empty batch: splitToChunks as
\* its loop runs, one iteration a step, and then the loop over the
\* fragments, one awaited send a step.  The lines are as long as 2, 3 and
\* MaxFragments chunks.
LongLines ==
    {[p \in 1..(n * MAX_CONTENT) |-> Letters[1]] : n \in {2, 3, MaxFragments}}

InitFragments ==
    /\ InitSystem
    /\ MAX_LINES_PER_BATCH = MaxLinesBound
    /\ arg_s \in LongLines
    /\ arg_max = MAX_CONTENT
    /\ result = <<>>
    /\ applied = FALSE
    /\ faults = FALSE
    /\ RCON_ENABLED = TRUE

\* One iteration of the for loop of splitToChunks, or its end.
SplitStep ==
    /\ ~applied
    /\ LET i == Len(result) * arg_max
       IN  IF i < Len(arg_s)
           THEN /\ result' = Append(result, Slice(arg_s, i, i + arg_max))
                /\ applied' = FALSE
           ELSE /\ result' = result
                /\ applied' = TRUE
    /\ UNCHANGED <<arg_s, arg_max>>
    /\ UNCHANGED <<cvars, channel, server, shuttingDown, main, enq, sd,
                   signals, did, log, exit>>
    /\ UNCHANGED <<qvars, rvars>>

\* One iteration of the loop over the fragments: the label is appended to
\* chunk i and the message is handed to sendPacked, which returns.
FragmentStep ==
    /\ applied
    /\ Len(sent) < Len(result)
    /\ LET i == Len(sent)
       IN  sent' = Append(sent,
                     [content |-> result[i + 1] \o Suffix(i + 1, Len(result)),
                      by |-> 1, kind |-> "fragment", i |-> i + 1,
                      n |-> Len(result), status |-> "ok"])
    /\ UNCHANGED <<queue, flushTimer, flush, nextFlush>>
    /\ UNCHANGED <<cvars, channel, server, shuttingDown, main, enq, sd,
                   signals, did, log, exit>>
    /\ UNCHANGED <<pvars, rvars>>

NextFragments == SplitStep \/ FragmentStep

SpecFragments == InitFragments /\ [][NextFragments]_vars


\* ------------------------------------------------------------ RconManager
\* The transport a new Rcon.connect makes.
NextTransport ==
    Cardinality({t \in TransportIds : transport[t] # "none"}) + 1

\* The entry a command handed to transport t by call c adds to the history.
Command(c, t) == [c |-> c, t |-> t, status |-> "pending"]

\* send after `await this.ensureConnected()` has returned, with r the value
\* of this.rcon then: the guard, and this.rcon.send(command).
Forward(c, r) ==
    IF r = 0
    THEN /\ call' = [call EXCEPT ![c] = [pc |-> "rejected", t |-> 0]]
         /\ issued' = issued
    ELSE /\ call' = [call EXCEPT ![c] = [pc |-> "aw_send", t |-> r]]
         /\ issued' = Append(issued, Command(c, r))

\* ensureConnected from `this.connecting = true` to the await of
\* Rcon.connect.
StartAttempt(c) ==
    /\ NextTransport \in TransportIds
    /\ connecting' = TRUE
    /\ transport' = [transport EXCEPT ![NextTransport] = "connecting"]
    /\ call' = [call EXCEPT ![c] = [pc |-> "aw_connect", t |-> NextTransport]]
    /\ UNCHANGED <<rcon, connected, closing, issued>>

\* Whether a caller that finds no session waits the backoff.
WaitsBackoff_never == FALSE

WaitsBackoff == connecting

\* A call send(command): ensureConnected from its start, and the rest of
\* send if ensureConnected returns at once.
RconSend(c) ==
    /\ Running
    /\ call[c].pc = "idle"
    /\ IF ~RCON_ENABLED
       THEN /\ call' = [call EXCEPT ![c] = [pc |-> "rejected", t |-> 0]]
            /\ UNCHANGED <<rcon, connected, connecting, transport, closing,
                           issued>>
       ELSE IF connected /\ rcon # 0
       THEN /\ Forward(c, rcon)
            /\ UNCHANGED <<rcon, connected, connecting, transport, closing>>
       ELSE IF WaitsBackoff
       THEN /\ call' = [call EXCEPT ![c] = [pc |-> "backoff", t |-> 0]]
            /\ UNCHANGED <<rcon, connected, connecting, transport, closing,
                           issued>>
       ELSE StartAttempt(c)
    /\ UNCHANGED <<cvars, channel, server, shuttingDown, main, enq, sd,
                   signals, did, log, exit>>
    /\ UNCHANGED <<qvars, pvars>>

\* The 250 ms timer of a waiting caller fires: it re-checks the session and
\* otherwise goes on to its own attempt.
BackoffDone(c) ==
    /\ Running
    /\ call[c].pc = "backoff"
    /\ IF connected /\ rcon # 0
       THEN /\ Forward(c, rcon)
            /\ UNCHANGED <<rcon, connected, connecting, transport, closing>>
       ELSE StartAttempt(c)
    /\ UNCHANGED <<cvars, channel, server, shuttingDown, main, enq, sd,
                   signals, did, log, exit>>
    /\ UNCHANGED <<qvars, pvars>>

\* The flag after an attempt has ended (the finally block).
ConnectingAfterAttempt_onSuccess(ok) == IF ok THEN FALSE ELSE connecting

ConnectingAfterAttempt(ok) == FALSE

\* Rcon.connect of call c settles.  Resolved: the transport is stored, the
\* end handler registered, and send goes on to forward the command.
\* Rejected or timed out: the error leaves ensureConnected and send.
ConnectDone(c) ==
    /\ Running
    /\ call[c].pc = "aw_connect"
    /\ \E ok \in BOOLEAN :
          /\ connecting' = ConnectingAfterAttempt(ok)
          /\ IF ok
             THEN /\ rcon' = call[c].t
                  /\ connected' = TRUE
                  /\ transport' = [transport EXCEPT ![call[c].t] = "live"]
                  /\ Forward(c, call[c].t)
             ELSE /\ transport' = [transport EXCEPT ![call[c].t] = "refused"]
                  /\ call' = [call EXCEPT ![c] = [pc |-> "rejected", t |-> 0]]
                  /\ UNCHANGED <<rcon, connected, issued>>
    /\ UNCHANGED closing
    /\ UNCHANGED <<cvars, channel, server, shuttingDown, main, enq, sd,
                   signals, did, log, exit>>
    /\ UNCHANGED <<qvars, pvars>>

\* The history with the pending command of call c settled.
SettleCommand(c, ok) ==
    [j \in 1..Len(issued) |->
        IF issued[j].c = c
        THEN [issued[j] EXCEPT !.status = IF ok THEN "ok" ELSE "failed"]
        ELSE issued[j]]

\* The session after this.rcon.send was rejected (the catch block of send).
SessionAfterFailure_kept == <<connected, rcon>>

SessionAfterFailure == <<FALSE, 0>>

\* this.rcon.send of call c settles: a response comes from a live transport
\* only; a rejection resets the session and is thrown on.
CommandDone(c) ==
    /\ Running
    /\ call[c].pc = "aw_send"
    /\ \E ok \in BOOLEAN :
          /\ ok => transport[call[c].t] = "live"
          /\ issued' = SettleCommand(c, ok)
          /\ IF ok
             THEN /\ call' = [call EXCEPT ![c].pc = "resolved"]
                  /\ UNCHANGED <<rcon, connected>>
             ELSE /\ call' = [call EXCEPT ![c].pc = "rejected"]
                  /\ connected' = SessionAfterFailure[1]
                  /\ rcon' = SessionAfterFailure[2]
    /\ UNCHANGED <<connecting, transport, closing>>
    /\ UNCHANGED <<cvars, channel, server, shuttingDown, main, enq, sd,
                   signals, did, log, exit>>
    /\ UNCHANGED <<qvars, pvars>>

\* Transport t terminates and emits "end": the handler registered by
\* ensureConnected runs.
TransportEnd(t) ==
    /\ Running
    /\ transport[t] = "live"
    /\ transport' = [transport EXCEPT ![t] = "ended"]
    /\ connected' = FALSE
    /\ rcon' = 0
    /\ UNCHANGED <<connecting, call, closing, issued>>
    /\ UNCHANGED <<cvars, channel, server, shuttingDown, main, enq, sd,
                   signals, did, log, exit>>
    /\ UNCHANGED <<qvars, pvars>>

\* A call close(): with a transport, end() is called on it and awaited;
\* with none, the session is reset at once.
RconClose ==
    /\ Running
    /\ closing.pc = "idle"
    /\ IF rcon # 0
       THEN /\ closing' = [pc |-> "aw_end", t |-> rcon]
            /\ UNCHANGED <<rcon, connected>>
       ELSE /\ closing' = [pc |-> "resolved", t |-> 0]
            /\ rcon' = 0
            /\ connected' = FALSE
    /\ UNCHANGED <<connecting, transport, call, issued>>
    /\ UNCHANGED <<cvars, channel, server, shuttingDown, main, enq, sd,
                   signals, did, log, exit>>
    /\ UNCHANGED <<qvars, pvars>>

\* end() settles, resolved once the transport has ended or rejected (and
\* caught): the session is reset.
RconCloseDone ==
    /\ Running
    /\ closing.pc = "aw_end"
    /\ \E ok \in BOOLEAN : ok => transport[closing.t] = "ended"
    /\ closing' = [closing EXCEPT !.pc = "resolved"]
    /\ rcon' = 0
    /\ connected' = FALSE
    /\ UNCHANGED <<connecting, transport, call, issued>>
    /\ UNCHANGED <<cvars, channel, server, shuttingDown, main, enq, sd,
                   signals, did, log, exit>>
    /\ UNCHANGED <<qvars, pvars>>

\* The session manager under any callers: send calls, the settling of what
\* they await, transports terminating, and close.
InitRcon ==
    /\ InitSystem
    /\ MAX_LINES_PER_BATCH = MaxLinesBound
    /\ NoCall
    /\ faults = FALSE
    /\ RCON_ENABLED \in BOOLEAN

NextRcon ==
    \/ \E c \in CallIds : RconSend(c)
    \/ \E c \in CallIds : BackoffDone(c)
    \/ \E c \in CallIds : ConnectDone(c)
    \/ \E c \in CallIds : CommandDone(c)
    \/ \E t \in TransportIds : TransportEnd(t)
    \/ RconClose
    \/ RconCloseDone

SpecRcon == InitRcon /\ [][NextRcon]_vars


\* ------------------------------------------------- reading the history
\* Index of the first newline of s, or 0.
FirstNL(s) ==
    IF \E p \in 1..Len(s) : s[p] = NL
    THEN CHOOSE p \in 1..Len(s) : s[p] = NL /\ \A r \in 1..(p - 1) : s[r] # NL
    ELSE 0

\* The lines of a batch content: what split("\n") gives.
RECURSIVE SplitNL(_)
SplitNL(s) ==
    IF FirstNL(s) = 0 THEN <<s>>
    ELSE <<SubSeq(s, 1, FirstNL(s) - 1)>>
            \o SplitNL(SubSeq(s, FirstNL(s) + 1, Len(s)))

\* A fragment message without its label.
Unlabel(m) == SubSeq(m.content, 1, Len(m.content) - Len(Suffix(m.i, m.n)))

\* The lines a sequence of messages carries, in order: a batch gives its
\* lines, a fragment starts a line (i = 1) or continues the last one.
RECURSIVE ReadLines(_)
ReadLines(msgs) ==
    IF msgs = <<>> THEN <<>>
    ELSE LET m == msgs[Len(msgs)]
             before == ReadLines(SubSeq(msgs, 1, Len(msgs) - 1))
         IN  IF m.kind = "batch" THEN before \o SplitNL(m.content)
             ELSE IF m.i = 1 \/ before = <<>> THEN Append(before, Unlabel(m))
             ELSE [before EXCEPT ![Len(before)] = @ \o Unlabel(m)]

SentBy(f) == SelectSeq(sent, LAMBDA m : m.by = f)

InFlight == {f \in FlushIds : flush[f].pc \in AwaitPcs}

Quiescent == queue = <<>> /\ InFlight = {}

\* lines is `full` cut short: whole lines of it, the last perhaps in part.
IsPartOf(lines, full) ==
    /\ Len(lines) <= Len(full)
    /\ \A j \in 1..Len(lines) :
          IF j < Len(lines) THEN lines[j] = full[j]
          ELSE IsPrefix(lines[j], full[j])

CeilDiv(a, b) == (a + b - 1) \div b

\* The letters of the printed lines that occur in a text.
LettersIn(s) == {s[p] : p \in 1..Len(s)} \cap {Letters[k] : k \in 1..Len(Letters)}

\* ----------------------------------------------------------------- claims
\* C1 (as claimed): when no send has failed and nothing is pending or in
\* flight, the lines handed to channel.send, read in the order the sends
\* were issued (batches split at newlines, fragments rejoined without their
\* labels), are the enqueued lines in enqueue order.
C1_DeliveredInOrder ==
    (Failures = 0 /\ Quiescent) => ReadLines(sent) = enq

\* C2 (as claimed): between the start and the completion of a flushQueue
\* invocation no enqueue call runs and no other flushQueue invocation starts.
C2_NoInterleaving ==
    [][InFlight # {} => (enq' = enq /\ nextFlush' = nextFlush)]_vars

\* C3: for MAX_LINES_PER_BATCH >= 1, every batch message has at most
\* MAX_CONTENT characters, newline separators included, and at most
\* MAX_LINES_PER_BATCH lines.
C3_BatchBounded ==
    MAX_LINES_PER_BATCH >= 1 =>
        \A j \in 1..Len(sent) :
            sent[j].kind = "batch" =>
                /\ Len(sent[j].content) <= MAX_CONTENT
                /\ Len(SplitNL(sent[j].content)) <= MAX_LINES_PER_BATCH

\* A batch of several lines that fills MAX_CONTENT exactly has been sent.
C3_Witness ==
    /\ MAX_LINES_PER_BATCH >= 1
    /\ \E j \in 1..Len(sent) :
          /\ sent[j].kind = "batch"
          /\ Len(sent[j].content) = MAX_CONTENT
          /\ Len(SplitNL(sent[j].content)) = MAX_LINES_PER_BATCH
          /\ Len(SplitNL(sent[j].content)) > 1

\* C4: an oversized line is never put in a batch; an invocation sends its
\* in-progress batch first, then the line as ceil(length / MAX_CONTENT)
\* fragments in order, each of at most MAX_CONTENT characters and together
\* the line, and only then the lines after it: read in order, the sends of
\* an invocation give the lines it took from the queue, in that order.
C4_OversizedAlone ==
    /\ \A j \in 1..Len(sent) :
          IF sent[j].kind = "batch"
          THEN \A l \in 1..Len(SplitNL(sent[j].content)) :
                  Len(SplitNL(sent[j].content)[l]) <= MAX_CONTENT
          ELSE /\ Len(Unlabel(sent[j])) \in 1..MAX_CONTENT
               /\ FirstNL(Unlabel(sent[j])) = 0
    /\ \A f \in FlushIds :
          /\ IsPartOf(ReadLines(SentBy(f)), flush[f].taken)
          /\ flush[f].pc = "done" => ReadLines(SentBy(f)) = flush[f].taken
          /\ flush[f].pc = "aw_chunk" =>
                /\ flush[f].current = <<>>
                /\ Len(flush[f].chunks) = CeilDiv(Len(flush[f].raw), MAX_CONTENT)
                /\ Concat(flush[f].chunks) = flush[f].raw
                /\ \A c \in 1..Len(flush[f].chunks) :
                      Len(flush[f].chunks[c]) \in 1..MAX_CONTENT
                /\ Len(SentBy(f)) > 0
                /\ SentBy(f)[Len(SentBy(f))].kind = "fragment"
                /\ Unlabel(SentBy(f)[Len(SentBy(f))])
                      = flush[f].chunks[flush[f].i + 1]

\* An invocation has returned after taking a short line, an oversized line
\* and another short line, in that order.
C4_Witness ==
    \E f \in FlushIds :
        /\ flush[f].pc = "done"
        /\ Len(flush[f].taken) = 3
        /\ Len(flush[f].taken[1]) <= MAX_CONTENT
        /\ Len(flush[f].taken[2]) > MAX_CONTENT
        /\ Len(flush[f].taken[3]) <= MAX_CONTENT
        /\ Len(SentBy(f)) = 2 + CeilDiv(Len(flush[f].taken[2]), MAX_CONTENT)

\* C5: for maxLen >= 1, splitToChunks(text, maxLen) is a sequence of
\* non-empty pieces of at most maxLen characters whose concatenation is
\* text; ("abcdef", 2) gives "ab","cd","ef" and ("abc", 10) gives "abc".
C5_SplitToChunks ==
    (applied /\ arg_max >= 1) =>
        /\ \A c \in 1..Len(result) : Len(result[c]) \in 1..arg_max
        /\ Concat(result) = arg_s
        /\ (arg_s = <<"a", "b", "c", "d", "e", "f">> /\ arg_max = 2) =>
              result = << <<"a", "b">>, <<"c", "d">>, <<"e", "f">> >>
        /\ (arg_s = <<"a", "b", "c">> /\ arg_max = 10) =>
              result = << <<"a", "b", "c">> >>

\* splitToChunks has been applied to a text that needs several chunks, the
\* last one shorter than the others.
C5_Witness ==
    /\ applied
    /\ Len(result) >= 2
    /\ Len(result[Len(result)]) < arg_max

\* C6 (as claimed): an invocation closes its batch before a line that is
\* not oversized only when the batch with a newline and that line appended
\* would exceed MAX_CONTENT, or the batch holds MAX_LINES_PER_BATCH lines;
\* and with MAX_LINES_PER_BATCH = 2, "a", "b", "c" drained by one invocation
\* are sent as "a\nb" and then "c".
C6_Greedy ==
    /\ \A f \in FlushIds :
          flush[f].pc = "aw_overflow" =>
              \/ Len(Join(flush[f].current)) + 1 + Len(flush[f].raw) > MAX_CONTENT
              \/ Len(flush[f].current) >= MAX_LINES_PER_BATCH
    /\ ( /\ MAX_LINES_PER_BATCH = 2
         /\ flush[1].pc = "done"
         /\ flush[1].taken = << <<"a">>, <<"b">>, <<"c">> >> )
       => /\ Len(SentBy(1)) = 2
          /\ SentBy(1)[1].content = <<"a", NL, "b">>
          /\ SentBy(1)[2].content = <<"c">>


\* A step that calls flushQueue(true): the child's close handler, or the
\* shutdown sequence after its grace wait.
ForcedCall ==
    \/ server = "proc" /\ server' = "null"
    \/ \E k \in SignalIds : sd[k].pc = "after_grace" /\ sd'[k].pc # "after_grace"

\* C7: a flushQueue(true) call ends with the timer inactive, whether it
\* returns at once (then it sends nothing and takes nothing from the queue,
\* and with the timer already stopped it changes nothing) or after a drain;
\* a step of a flushQueue(false) invocation leaves the timer as it is.
C7_TimerStoppedByForce ==
    [][ /\ \A f \in FlushIds :
             /\ (flush[f].pc # "done" /\ flush'[f].pc = "done" /\ flush'[f].force)
                   => ~flushTimer'
             /\ (flush'[f] # flush[f] /\ ~flush'[f].force)
                   => flushTimer' = flushTimer
        /\ (ForcedCall /\ nextFlush' = nextFlush) =>
               /\ ~flushTimer'
               /\ UNCHANGED <<queue, sent, flush>>
      ]_vars

\* A forced invocation has returned and the timer is inactive, after an
\* invocation started by the timer had drained the queue and returned.
C7_Witness ==
    /\ ~flushTimer
    /\ \E f, g \in FlushIds :
          /\ flush[f].pc = "done" /\ flush[f].force
          /\ flush[g].pc = "done" /\ ~flush[g].force
          /\ g < f

\* C8: a rejected send does not stop the drain and is not retried: an
\* invocation that has returned has handed every line it took to
\* channel.send, in order; and the lines of a rejected message are not in
\* the queue and in no later message (after a rejected fragment only the
\* following fragments of its line carry that line).
C8_FailureAbsorbed ==
    /\ \A f \in FlushIds :
          flush[f].pc = "done" => ReadLines(SentBy(f)) = flush[f].taken
    /\ \A j \in 1..Len(sent) :
          sent[j].status = "failed" =>
              /\ \A q \in 1..Len(queue) :
                    LettersIn(queue[q]) \cap LettersIn(Unlabel(sent[j])) = {}
              /\ \A l \in (j + 1)..Len(sent) :
                    LettersIn(Unlabel(sent[l])) \cap LettersIn(Unlabel(sent[j])) # {}
                        => /\ sent[j].kind = "fragment"
                           /\ sent[l].kind = "fragment"
                           /\ sent[l].by = sent[j].by
                           /\ sent[l].i > sent[j].i

\* An invocation has returned after one of its sends was rejected and it
\* sent another message after that.
C8_Witness ==
    \E j \in 1..Len(sent) :
        /\ sent[j].status = "failed"
        /\ flush[sent[j].by].pc = "done"
        /\ \E l \in (j + 1)..Len(sent) :
              sent[l].by = sent[j].by /\ sent[l].status = "ok"

\* C9: whatever the number of signals and wherever they arrive, each
\* teardown step runs at most once.
C9_TeardownOnce == \A s \in Steps : did[s] <= 1

\* A second signal arrived while the first shutdown was suspended, and the
\* process has exited.
C9_Witness ==
    /\ signals >= 2
    /\ sd[2].pc = "returned"
    /\ exit = "exit0"
    /\ \A s \in Steps \ {"stop", "kill"} : did[s] = 1

PastGrace == {"aw_flush", "after_flush", "aw_rcon", "aw_destroy", "exited"}

\* C10: the grace wait is settled once, by the first of the close event and
\* the timer, and the later one changes nothing; the code after the wait
\* calls kill exactly when the timer won and the child is running, so kill
\* is called at most once, never when the close event won, and once when
\* the timer won on a child the shutdown was waiting for.
C10_GraceOnce ==
    /\ [](\A k \in SignalIds :
            /\ did["kill"] <= 1
            /\ (sd[k].settled /\ sd[k].closed) => did["kill"] = 0
            /\ ( /\ sd[k].pc \in PastGrace
                 /\ ~sd[k].closed
                 /\ (sd[k].registered \/ sd[k].done) ) => did["kill"] = 1)
    /\ [][\A k \in SignalIds :
            /\ sd[k].settled =>
                  /\ sd'[k].settled
                  /\ sd'[k].closed = sd[k].closed
                  /\ sd'[k].pc # "after_grace" \/ sd[k].pc = "after_grace"
            /\ (sd[k].pc = "after_grace" /\ sd'[k].pc # "after_grace") =>
                  did'["kill"] = did["kill"]
                      + (IF ~sd[k].closed /\ server = "proc" THEN 1 ELSE 0)
         ]_vars

\* The timer won on a running child, kill was called once, and the child's
\* close event came afterwards.
C10_Witness ==
    \E k \in SignalIds :
        /\ sd[k].settled /\ ~sd[k].closed /\ sd[k].done
        /\ did["kill"] = 1
        /\ server = "null"

\* The teardown steps in the order of the shutdown function.
Order ==
    <<"announce", "flag", "stop", "grace", "kill", "flush", "rcon", "destroy",
      "exit">>

Pos(step) == CHOOSE p \in 1..Len(Order) : Order[p] = step

Logged == {log[j].step : j \in 1..Len(log)}

LastStep == IF log = <<>> THEN "none" ELSE log[Len(log)].step

\* The step a shutdown invocation at position pc has just made.
StepAt(pc) ==
    CASE pc \in {"aw_announce", "after_announce"} -> "announce"
      [] pc \in {"aw_grace", "after_grace"} -> "grace"
      [] pc \in {"aw_flush", "after_flush"} -> "flush"
      [] pc = "aw_rcon" -> "rcon"
      [] pc = "aw_destroy" -> "destroy"
      [] pc = "exited" -> "exit"
      [] OTHER -> "none"

\* C11: the teardown steps run in the order announce, flag, stop, grace
\* wait, kill, flush, RCON close, disconnect, exit, none of them twice and
\* none but stop and kill left out; stop is written only to a running child
\* and kill is called only after the grace timer won; and a step that
\* failed changes nothing in where the sequence goes on: the shutdown that
\* began is always at the position after its last step, never returned
\* early, and when the process exits with code 0 every step before has run.
C11_OrderedBestEffort ==
    /\ [](/\ \A i, j \in 1..Len(log) :
               i < j => Pos(log[i].step) < Pos(log[j].step)
          /\ \A j \in 1..Len(log) :
               \A p \in 1..(Pos(log[j].step) - 1) :
                   Order[p] \in Logged \/ Order[p] \in {"stop", "kill"}
          /\ "kill" \in Logged => (sd[1].settled /\ ~sd[1].closed)
          /\ sd[1].pc # "returned"
          /\ StepAt(sd[1].pc) = LastStep
          /\ exit = "exit0" => LastStep = "exit")
    /\ [][/\ ("stop" \in Logged' /\ "stop" \notin Logged) => server = "proc"
          /\ ("kill" \in Logged' /\ "kill" \notin Logged) => server = "proc"
         ]_vars

\* The process has exited with code 0 after all nine steps, one of which
\* failed.
C11_Witness ==
    /\ exit = "exit0"
    /\ Len(log) = Len(Order)
    /\ \E j \in 1..Len(log) : ~log[j].ok

\* The transports with a connection attempt in flight, and the live ones.
Attempts == {t \in TransportIds : transport[t] = "connecting"}

Live == {t \in TransportIds : transport[t] = "live"}

\* C12 (as claimed): at most one Rcon.connect attempt is in flight at any
\* time; a caller that finds connecting true starts no attempt while one is
\* in flight, and a caller that finds the session connected starts none.
C12_OneAttempt == Cardinality(Attempts) <= 1

\* C13 (as claimed): at most one transport is live (established and not
\* ended) at any time, the ones the manager no longer references included.
C13_OneLiveTransport == Cardinality(Live) <= 1

\* The transports a command was rejected on, or that have terminated.
Stale ==
    {issued[j].t : j \in {i \in 1..Len(issued) : issued[i].status = "failed"}}
        \cup {t \in TransportIds : transport[t] = "ended"}

\* C14: a step in which a forwarded command is rejected, or a transport
\* terminates, leaves the session disconnected (connected false, no
\* transport) and the caller of the rejected command rejected; no call
\* forwards its command twice; and a command is only ever forwarded to a
\* live transport on which no command was rejected before, so the send
\* calls after a failure run on a transport established anew.
C14_FailureResetsSession ==
    /\ [](\A c \in CallIds :
            Cardinality({j \in 1..Len(issued) : issued[j].c = c}) <= 1)
    /\ [][/\ \A j \in 1..Len(issued) :
               (issued[j].status = "pending" /\ issued'[j].status = "failed")
                   => /\ ~connected'
                      /\ rcon' = 0
                      /\ call'[issued[j].c].pc = "rejected"
          /\ \A t \in TransportIds :
               (transport[t] = "live" /\ transport'[t] = "ended")
                   => (~connected' /\ rcon' = 0)
          /\ Len(issued') > Len(issued) =>
               /\ issued'[Len(issued')].t \notin Stale
               /\ transport'[issued'[Len(issued')].t] = "live"
         ]_vars

\* A command was rejected on one transport, and a later call had its
\* command executed on another one.
C14_Witness ==
    \E i, j \in 1..Len(issued) :
        /\ i < j
        /\ issued[i].status = "failed"
        /\ issued[j].status = "ok"
        /\ issued[j].t # issued[i].t

\* C17: connecting is false whenever no connection attempt is in flight,
\* and when a call leaves ensureConnected, by return or by exception,
\* whether its Rcon.connect resolved, was rejected or timed out; with RCON
\* disabled every call is rejected at once, connecting is never set and no
\* transport is made.
C17_ConnectingCleared ==
    /\ []((\A c \in CallIds : call[c].pc # "aw_connect") => ~connecting)
    /\ [](~RCON_ENABLED =>
            /\ ~connecting
            /\ \A c \in CallIds : call[c].pc \in {"idle", "rejected"}
            /\ \A t \in TransportIds : transport[t] = "none")
    /\ [][\A c \in CallIds :
            ( /\ call[c].pc \in {"idle", "backoff", "aw_connect"}
              /\ call'[c].pc \in {"aw_send", "rejected"} ) => ~connecting'
         ]_vars

\* A connection attempt was rejected, its caller got the error, and no
\* attempt is left in flight.
C17_Witness ==
    /\ \E t \in TransportIds : transport[t] = "refused"
    /\ \E c \in CallIds : call[c].pc = "rejected"
    /\ \A c \in CallIds : call[c].pc # "aw_connect"
    /\ ~connecting

\* C20 (as claimed): the "end" event of a transport that is not the
\* manager's current one leaves connected and the reference to the current
\* transport as they are.
C20_StaleEndIgnored ==
    [][\A t \in TransportIds :
          (transport[t] = "live" /\ transport'[t] = "ended" /\ rcon # t)
              => (connected' = connected /\ rcon' = rcon)
      ]_vars

\* s without its zero-width characters.
Visible(s) == SelectSeq(s, LAMBDA ch : ch # ZW)

\* C15 (as claimed): the output of sanitizeLine has no three consecutive
\* backticks, each of its at signs is followed at once by a zero-width
\* character, and without the zero-width characters it is the input.
C15_Neutralized ==
    applied =>
        /\ \A p \in 1..Len(result) : ~MatchAt(result, <<BT, BT, BT>>, p)
        /\ \A p \in 1..Len(result) :
              result[p] = AT => (p < Len(result) /\ result[p + 1] = ZW)
        /\ Visible(result) = arg_s

\* C16 (as claimed): once shutdown has been triggered the process
\* eventually exits with code 0.
C16_ExitsZero == shuttingDown ~> (exit = "exit0")

\* The invocations that will look at the queue again: those suspended
\* inside the while loop.
WillDrain == {f \in FlushIds : flush[f].pc \in AwaitPcs \ {"aw_final"}}

\* C18 (as claimed): before the process exits, whenever the queue is not
\* empty the flush timer is active or an invocation of flushQueue that
\* will still drain the queue is in progress.
C18_NoStrandedLine ==
    (exit = "running" /\ queue # <<>>) => (flushTimer \/ WillDrain # {})

\* C19 (as claimed): when the shutdown sequence has exited, no invocation
\* of flushQueue is suspended at a send or holds lines it has not sent, no
\* send is unsettled, and the lines enqueued before the shutdown called
\* flushQueue(true) have all left the queue.
C19_DrainedAtExit ==
    exit = "exit0" =>
        /\ InFlight = {}
        /\ \A j \in 1..Len(sent) : sent[j].status # "pending"
        /\ Len(enq) - Len(queue) >= sd[1].before

\* C21 (as claimed): every content handed to channel.send, the fragments
\* of an oversized line with their labels included, has at most
\* DISCORD_HARD_LIMIT characters.
C21_WithinHardLimit ==
    \A j \in 1..Len(sent) : Len(sent[j].content) <= DISCORD_HARD_LIMIT

====
